---- MODULE Spec2Model ----
(***************************************************************************)
(* UBIFS-Explorer: the node scanner (explorer.py, parse_ubifs_image and    *)
(* process_node) and the filesystem reconstructor (reconstructor.py,       *)
(* UBIFSFilesystemReconstructor).                                          *)
(*                                                                         *)
(* Two specifications share the variables:                                 *)
(*   SpecScan   the scanner run over byte images built from a catalogue of *)
(*              segments (well-formed nodes, damaged nodes, garbage);      *)
(*   SpecRecon  process_parsed_nodes run over lists of decoded nodes, the  *)
(*              lists parse_ubifs_image returns.                           *)
(* Byte strings, names and paths are sequences of numbers (bytes, code     *)
(* points); Python dicts are sequences of [k, v] records in insertion      *)
(* order, because the code iterates them in that order.                    *)
(***************************************************************************)
EXTENDS Integers, Sequences, FiniteSets, TLC

VARIABLES
    image,      \* the bytes of the image file
    fpos,       \* the read position of the file object f
    offset,     \* parse_ubifs_image: the cursor
    offsets,    \* parse_ubifs_image: offsets of the emitted nodes
    headers,    \* parse_ubifs_image: headers of the emitted nodes
    nodes,      \* parse_ubifs_image: decoded bodies of the emitted nodes
    scan,       \* "running" | "returned" | "raised" (an exception left the function)
    exc,        \* the exception that left the running function, "" when none
    \* UBIFSFilesystemReconstructor
    pc,             \* position in process_parsed_nodes
    idx,            \* index of the running loop
    ino_nodes, dent_nodes, data_nodes,  \* process_parsed_nodes: nodes by type
    inodes,         \* {inum : FileInfo}
    dir_entries,    \* {parent_inum : [DirEntry]}
    data_blocks,    \* {inum : [DataBlock]}
    directory_tree, \* {inum : {name : child_inum}}
    inode_paths,    \* {inum : full_path}
    hard_links,     \* {inum : [paths]}
    symlink_targets,    \* {inum : target_path}
    created_files,  \* {inum : first_created_path}
    ops             \* the operations done on the output directory, in order

scanVars == <<image, fpos, offset, offsets, headers, nodes, scan, exc>>
reconVars ==
    <<pc, idx, ino_nodes, dent_nodes, data_nodes, inodes, dir_entries, data_blocks,
      directory_tree, inode_paths, hard_links, symlink_targets, created_files, ops>>

(***************************************************************************)
(* Constants of explorer.py                                                *)
(***************************************************************************)
UBIFS_NODE_MAGIC == 101718065       \* 0x06101831
UBIFS_HEADER_SIZE == 24
UBIFS_KEY_LEN == 16

UBIFS_NODE_TYPES ==
    [t \in 0..11 |->
        CASE t = 0 -> "INO_NODE"  [] t = 1 -> "DATA_NODE" [] t = 2 -> "DENT_NODE"
          [] t = 3 -> "XENT_NODE" [] t = 4 -> "TRUN_NODE" [] t = 5 -> "PAD_NODE"
          [] t = 6 -> "SB_NODE"   [] t = 7 -> "MST_NODE"  [] t = 8 -> "REF_NODE"
          [] t = 9 -> "IDX_NODE"  [] t = 10 -> "CS_NODE"  [] t = 11 -> "ORPH_NODE"]

\* UBIFS_NODE_TYPES.get(header.node_type, "UNKNOWN")
NodeTypeStr(t) == IF t \in DOMAIN UBIFS_NODE_TYPES THEN UBIFS_NODE_TYPES[t] ELSE "UNKNOWN"

Min(a, b) == IF a < b THEN a ELSE b

(***************************************************************************)
(* construct's little-endian integers: IntNul.parse reads n bytes at the   *)
(* 0-based offset i of s; IntNul.build writes them.                        *)
(***************************************************************************)
RECURSIVE UInt(_, _, _)
UInt(s, i, n) == IF n = 0 THEN 0 ELSE s[i + 1] + 256 * UInt(s, i + 1, n - 1)

RECURSIVE LE(_, _)
LE(v, n) == IF n = 0 THEN <<>> ELSE <<v % 256>> \o LE(v \div 256, n - 1)

RECURSIVE Zeros(_)
Zeros(n) == IF n = 0 THEN <<>> ELSE <<0>> \o Zeros(n - 1)

\* s[i:] of a bytes object, i 0-based
From(s, i) == SubSeq(s, i + 1, Len(s))

(***************************************************************************)
(* The value a Struct.parse returns (a construct Container).  One record   *)
(* shape serves every node type; kind names the Struct that built it, and  *)
(* so which attributes exist: "Ino" (UBIFSInoNode), "InoRoute"             *)
(* (UBIFSInoRouteNode: no mode, uid, gid, times, nlink), "Data", "Dent",   *)
(* "Other" (the types the reconstructor does not read) and "None" (the     *)
(* Python value None).                                                     *)
(***************************************************************************)
Container(kind) ==
    [kind |-> kind, inum |-> 0, block |-> 0, size |-> 0, mode |-> 0, uid |-> 0,
     gid |-> 0, atime_sec |-> 0, mtime_sec |-> 0, ctime_sec |-> 0, nlink |-> 0,
     key_inum |-> 0, type |-> 0, name |-> <<>>, data |-> <<>>]

None == Container("None")

\* UBIFSHeader.parse(data), data the 24 bytes read
UBIFSHeader(data) ==
    [magic |-> UInt(data, 0, 4), crc32 |-> UInt(data, 4, 4), sqnum |-> UInt(data, 8, 8),
     len |-> UInt(data, 16, 4), node_type |-> UInt(data, 20, 1),
     group_type |-> UInt(data, 21, 1)]

\* The bytes a Struct needs before its GreedyBytes or length-prefixed tail:
\* parse raises StreamError on fewer.
UBIFSInoNodeSize == 136
UBIFSInoRouteNodeSize == 32
UBIFSDataNodeSize == 24
UBIFSDentNodeSize == 32
UBIFSXentNodeSize == 16
UBIFSTrunNodeSize == 32
UBIFSPadNodeSize == 4
UBIFSSuperblockNodeSize == 4072
UBIFSMasterNodeSize == 488
UBIFSRefNodeSize == 16
UBIFSIdxNodeSize == 4
UBIFSOrphNodeSize == 8
InoFullThreshold == 84

UBIFSInoNode(c) ==
    [Container("Ino") EXCEPT
        !.inum = UInt(c, 0, 4), !.block = UInt(c, 4, 4), !.size = UInt(c, 24, 8),
        !.atime_sec = UInt(c, 32, 8), !.ctime_sec = UInt(c, 40, 8),
        !.mtime_sec = UInt(c, 48, 8), !.nlink = UInt(c, 68, 4), !.uid = UInt(c, 72, 4),
        !.gid = UInt(c, 76, 4), !.mode = UInt(c, 80, 4),
        !.data = From(c, UBIFSInoNodeSize)]

UBIFSInoRouteNode(c) ==
    [Container("InoRoute") EXCEPT
        !.inum = UInt(c, 0, 4), !.block = UInt(c, 4, 4), !.size = UInt(c, 24, 8),
        !.data = From(c, UBIFSInoRouteNodeSize)]

UBIFSDataNode(c) ==
    [Container("Data") EXCEPT
        !.inum = UInt(c, 0, 4), !.block = UInt(c, 4, 4), !.size = UInt(c, 16, 4),
        !.data = From(c, UBIFSDataNodeSize)]

UBIFSDentNode(c) ==
    [Container("Dent") EXCEPT
        !.key_inum = UInt(c, 0, 4), !.block = UInt(c, 4, 4), !.inum = UInt(c, 16, 8),
        !.type = UInt(c, 25, 1),
        !.name = SubSeq(c, UBIFSDentNodeSize + 1, UBIFSDentNodeSize + UInt(c, 26, 2))]

\* Whether Struct.parse(content) of the type's Struct succeeds (TRUE) or raises
\* StreamError because content is too short.
Parses(node_type, c) ==
    CASE node_type = "INO_NODE" ->
            IF Len(c) >= InoFullThreshold THEN Len(c) >= UBIFSInoNodeSize
            ELSE Len(c) >= UBIFSInoRouteNodeSize
      [] node_type = "DATA_NODE" -> Len(c) >= UBIFSDataNodeSize
      [] node_type = "DENT_NODE" ->
            /\ Len(c) >= UBIFSDentNodeSize
            /\ Len(c) >= UBIFSDentNodeSize + UInt(c, 26, 2)
      [] node_type = "XENT_NODE" ->
            /\ Len(c) >= UBIFSXentNodeSize
            /\ Len(c) >= UBIFSXentNodeSize + UInt(c, 9, 1)
      [] node_type = "TRUN_NODE" -> Len(c) >= UBIFSTrunNodeSize
      [] node_type = "PAD_NODE" -> Len(c) >= UBIFSPadNodeSize
      [] node_type = "SB_NODE" -> Len(c) >= UBIFSSuperblockNodeSize
      [] node_type = "MST_NODE" -> Len(c) >= UBIFSMasterNodeSize
      [] node_type = "REF_NODE" -> Len(c) >= UBIFSRefNodeSize
      [] node_type = "IDX_NODE" -> Len(c) >= UBIFSIdxNodeSize
      [] node_type = "ORPH_NODE" -> Len(c) >= UBIFSOrphNodeSize
      [] OTHER -> TRUE

\* The Container the type's Struct builds from content (CS_NODE: pass, node stays None)
Parse(node_type, c) ==
    CASE node_type = "INO_NODE" ->
            IF Len(c) >= InoFullThreshold THEN UBIFSInoNode(c) ELSE UBIFSInoRouteNode(c)
      [] node_type = "DATA_NODE" -> UBIFSDataNode(c)
      [] node_type = "DENT_NODE" -> UBIFSDentNode(c)
      [] node_type = "CS_NODE" -> None
      [] OTHER -> Container("Other")

(***************************************************************************)
(* Struct.build: the bytes of a node, for the images and node lists below  *)
(***************************************************************************)
\* UBIFSHeader.build
HeaderBytes(sqnum, len, node_type) ==
    LE(UBIFS_NODE_MAGIC, 4) \o LE(0, 4) \o LE(sqnum, 8) \o LE(len, 4)
        \o <<node_type, 0>> \o Zeros(2)

\* UBIFSDataNode.build
DataPayload(inum, block, data) ==
    LE(inum, 4) \o LE(block, 4) \o Zeros(UBIFS_KEY_LEN - 8) \o LE(Len(data), 4)
        \o LE(0, 2) \o LE(0, 2) \o data

\* UBIFSDentNode.build
DentPayload(key_inum, inum, type, name) ==
    LE(key_inum, 4) \o LE(0, 4) \o Zeros(UBIFS_KEY_LEN - 8) \o LE(inum, 8) \o <<0, type>>
        \o LE(Len(name), 2) \o LE(0, 4) \o name

\* UBIFSInoRouteNode.build
InoRoutePayload(inum, size) ==
    LE(inum, 4) \o LE(0, 4) \o Zeros(UBIFS_KEY_LEN - 8) \o LE(0, 8) \o LE(size, 8)

NodeBytes(sqnum, node_type, payload) ==
    HeaderBytes(sqnum, UBIFS_HEADER_SIZE + Len(payload), node_type) \o payload

(***************************************************************************)
(* process_node(node_type, payload_size, f), f at position pos of img.     *)
(* The result is [exc, node, fpos]: exc = "" when the call returns node,   *)
(* else the exception it raises;  fpos is f's position afterwards.         *)
(*   - "UNKNOWN" or payload_size = 0: UBIFSUnknownNode.parse(content)      *)
(*     reads the local content before any assignment: UnboundLocalError;   *)
(*   - payload_size < 0, and a short read: raise Exception(msg=...);       *)
(*     Exception takes no keyword arguments, so TypeError is raised;       *)
(*   - a payload too short for its Struct: construct's StreamError.        *)
(***************************************************************************)
\* process_node without the test len(content) == payload_size
process_node_no_length_test(node_type, payload_size, img, pos) ==
    IF node_type = "UNKNOWN" \/ payload_size = 0
    THEN [exc |-> "UnboundLocalError", node |-> None, fpos |-> pos]
    ELSE IF payload_size < 0
    THEN [exc |-> "TypeError", node |-> None, fpos |-> pos]
    ELSE LET content == SubSeq(img, pos + 1, Min(pos + payload_size, Len(img)))
             after == pos + Len(content)
         IN  IF Parses(node_type, content)
             THEN [exc |-> "", node |-> Parse(node_type, content), fpos |-> after]
             ELSE [exc |-> "StreamError", node |-> None, fpos |-> after]

process_node(node_type, payload_size, img, pos) ==
    IF node_type = "UNKNOWN" \/ payload_size = 0
    THEN [exc |-> "UnboundLocalError", node |-> None, fpos |-> pos]
    ELSE IF payload_size < 0
    THEN [exc |-> "TypeError", node |-> None, fpos |-> pos]
    ELSE LET content == SubSeq(img, pos + 1, Min(pos + payload_size, Len(img)))
             after == pos + Len(content)
         IN  IF Len(content) = payload_size
             THEN IF Parses(node_type, content)
                  THEN [exc |-> "", node |-> Parse(node_type, content), fpos |-> after]
                  ELSE [exc |-> "StreamError", node |-> None, fpos |-> after]
             ELSE [exc |-> "TypeError", node |-> None, fpos |-> after]

(***************************************************************************)
(* reconstructor.py                                                        *)
(***************************************************************************)
UBIFS_ITYPE_REG == 32768    \* 0x8000
UBIFS_ITYPE_DIR == 16384    \* 0x4000
UBIFS_ITYPE_LNK == 40960    \* 0xA000

\* mode & 0xF000
FileType(mode) == ((mode \div 4096) % 16) * 4096

\* Python dicts, in insertion order: sequences of [k, v]
Has(d, k) == \E i \in 1..Len(d) : d[i].k = k
Get(d, k) == d[CHOOSE i \in 1..Len(d) : d[i].k = k].v
GetOr(d, k, default) == IF Has(d, k) THEN Get(d, k) ELSE default
Put(d, k, v) ==
    IF Has(d, k)
    THEN [i \in 1..Len(d) |-> IF d[i].k = k THEN [k |-> k, v |-> v] ELSE d[i]]
    ELSE Append(d, [k |-> k, v |-> v])
Keys(d) == {d[i].k : i \in 1..Len(d)}

\* bytes.decode('utf-8') on ASCII bytes: each byte is its code point.  A byte
\* from 128 up stands for an undecodable sequence (errors='replace': U+FFFD);
\* the names and targets of the images modelled are ASCII.
Utf8Decode(b) == [i \in 1..Len(b) |-> IF b[i] < 128 THEN b[i] ELSE 65533]

\* str.rstrip('\0')
RECURSIVE RStripNul(_)
RStripNul(t) ==
    IF t # <<>> /\ t[Len(t)] = 0 THEN RStripNul(SubSeq(t, 1, Len(t) - 1)) ELSE t

\* a < b for Python str (and bytes): lexicographic on the code points
RECURSIVE StrLess(_, _)
StrLess(a, b) ==
    IF b = <<>> THEN FALSE
    ELSE IF a = <<>> THEN TRUE
    ELSE IF a[1] # b[1] THEN a[1] < b[1]
    ELSE StrLess(Tail(a), Tail(b))

\* list.sort() of a list of str
RECURSIVE InsertPath(_, _)
InsertPath(sorted, p) ==
    IF sorted = <<>> THEN <<p>>
    ELSE IF StrLess(p, sorted[1]) THEN <<p>> \o sorted
    ELSE <<sorted[1]>> \o InsertPath(Tail(sorted), p)

RECURSIVE SortPaths(_)
SortPaths(paths) ==
    IF paths = <<>> THEN <<>>
    ELSE InsertPath(SortPaths(SubSeq(paths, 1, Len(paths) - 1)), paths[Len(paths)])

\* sorted(blocks, key=lambda x: x.block_num): stable
RECURSIVE InsertBlock(_, _)
InsertBlock(sorted, b) ==
    IF sorted = <<>> THEN <<b>>
    ELSE IF b.block_num < sorted[1].block_num THEN <<b>> \o sorted
    ELSE <<sorted[1]>> \o InsertBlock(Tail(sorted), b)

RECURSIVE SortBlocks(_)
SortBlocks(blocks) ==
    IF blocks = <<>> THEN <<>>
    ELSE InsertBlock(SortBlocks(SubSeq(blocks, 1, Len(blocks) - 1)), blocks[Len(blocks)])

\* content = b''; for block in blocks: content += block.data
RECURSIVE Concat(_)
Concat(blocks) ==
    IF blocks = <<>> THEN <<>> ELSE blocks[1].data \o Concat(Tail(blocks))

\* __init__: the state after construction
ReconFresh ==
    /\ inodes = <<>>
    /\ dir_entries = <<>>
    /\ data_blocks = <<>>
    /\ directory_tree = <<>>
    /\ inode_paths = <<>>
    /\ hard_links = <<>>
    /\ symlink_targets = <<>>
    /\ created_files = <<>>
    /\ ops = <<>>

\* The attributes of the Container each Struct builds; getattr(node, a, None)
\* is None for any other name.
Attributes(kind) ==
    CASE kind = "Ino" ->
            {"inum", "block", "crc", "creat_sqnum", "size", "atime_sec", "ctime_sec",
             "mtime_sec", "atime_nsec", "ctime_nsec", "mtime_nsec", "nlink", "uid",
             "gid", "mode", "flags", "data_len", "xattr_cnt", "xattr_size",
             "xattr_names", "compr_type", "data"}
      [] kind = "InoRoute" -> {"inum", "block", "crc", "creat_sqnum", "size", "data"}
      [] kind = "Data" -> {"inum", "block", "crc", "size", "compr_type", "compr_size", "data"}
      [] kind = "Dent" -> {"key_inum", "block", "crc", "inum", "type", "nlen", "cookie", "name"}
      [] OTHER -> {}

\* add_inode_node raises AttributeError when it reads an attribute the
\* Container lacks (node_data.mode of a UBIFSInoRouteNode)
add_inode_node_raises(node_data) ==
    /\ node_data.inum # 0
    /\ ~({"size", "mode", "uid", "gid", "atime_sec", "mtime_sec", "ctime_sec"}
            \subseteq Attributes(node_data.kind))

\* add_inode_node: the FileInfo built from the node
FileInfo(node_data) ==
    IF node_data.inum # 0
    THEN [inum |-> node_data.inum, name |-> <<>>, type |-> FileType(node_data.mode),
          size |-> node_data.size, mode |-> node_data.mode, uid |-> node_data.uid,
          gid |-> node_data.gid, atime |-> node_data.atime_sec,
          mtime |-> node_data.mtime_sec, ctime |-> node_data.ctime_sec,
          nlink |-> IF "nlink" \in Attributes(node_data.kind) THEN node_data.nlink ELSE 1]
    ELSE [inum |-> 0, name |-> <<>>, type |-> FileType(0), size |-> 0, mode |-> 0,
          uid |-> 0, gid |-> 0, atime |-> 0, mtime |-> 0, ctime |-> 0, nlink |-> 1]

\* self.inodes[inum] = file_info
add_inode_node(d, node_data) == Put(d, node_data.inum, FileInfo(node_data))

\* self.data_blocks[inum].append(data_block)
add_data_node(d, node_data) ==
    Put(d, node_data.inum,
        Append(GetOr(d, node_data.inum, <<>>),
               [inum |-> node_data.inum, block_num |-> node_data.block,
                data |-> node_data.data]))

\* getattr(node, a, None) or getattr(node, b, None) or ...: the first attribute
\* that exists and is truthy; NoParent stands for None.  No Struct of
\* explorer.py has an attribute of these names (the parent of a DENT node is its
\* key_inum), so the result is always None.
NoParent == 0 - 1
ParentAttribute(node_data, names) ==
    IF names \cap Attributes(node_data.kind) = {}
    THEN NoParent
    ELSE node_data.parent_inum

\* add_dent_node(node, parent_inum): the parent the entry is filed under
DentParent(node_data, parent_inum) ==
    LET p1 == IF parent_inum = NoParent
              THEN ParentAttribute(node_data, {"parent_inum", "dir_inum", "pinum", "parent"})
              ELSE parent_inum
    IN  IF p1 = NoParent THEN 1 ELSE p1

\* self.dir_entries[parent_inum].append(dir_entry)
add_dent_node(d, node_data, parent_inum) ==
    LET parent == DentParent(node_data, parent_inum)
    IN  Put(d, parent,
            Append(GetOr(d, parent, <<>>),
                   [inum |-> node_data.inum, name |-> Utf8Decode(node_data.name),
                    type |-> node_data.type, parent_inum |-> parent]))

(***************************************************************************)
(* build_directory_tree, on st = [tree, paths, links] (directory_tree,     *)
(* inode_paths, hard_links)                                                *)
(***************************************************************************)
Slash == <<47>>
DotNames == {<<46>>, <<46, 46>>}

\* the body of "for entry in entries" for one entry of parent_inum
BuildEntry(st, ino, parent_inum, entry) ==
    IF entry.name \in DotNames THEN st
    ELSE
    LET tree1 == Put(st.tree, parent_inum,
                     Put(Get(st.tree, parent_inum), entry.name, entry.inum))
        parent_path == GetOr(st.paths, parent_inum, Slash)
        full_path == IF parent_path = Slash THEN Slash \o entry.name
                     ELSE parent_path \o Slash \o entry.name
        known == Has(ino, entry.inum)
    IN  [tree |-> IF known /\ Get(ino, entry.inum).type = UBIFS_ITYPE_DIR
                          /\ ~Has(tree1, entry.inum)
                  THEN Put(tree1, entry.inum, <<>>) ELSE tree1,
         paths |-> Put(st.paths, entry.inum, full_path),
         links |-> IF known
                   THEN Put(st.links, entry.inum,
                            Append(GetOr(st.links, entry.inum, <<>>), full_path))
                   ELSE st.links]

RECURSIVE BuildEntries(_, _, _, _)
BuildEntries(st, ino, parent_inum, entries) ==
    IF entries = <<>> THEN st
    ELSE BuildEntries(BuildEntry(st, ino, parent_inum, entries[1]), ino, parent_inum,
                      Tail(entries))

\* "for parent_inum, entries in self.dir_entries.items()"
RECURSIVE BuildParents(_, _, _)
BuildParents(st, ino, dents) ==
    IF dents = <<>> THEN st
    ELSE LET parent_inum == dents[1].k
             st1 == IF Has(st.tree, parent_inum) THEN st
                    ELSE [st EXCEPT !.tree = Put(st.tree, parent_inum, <<>>)]
         IN  BuildParents(BuildEntries(st1, ino, parent_inum, dents[1].v), ino, Tail(dents))

\* "if 1 not in self.directory_tree" and the loops
build_directory_tree(st, ino, dents) ==
    LET st0 == IF Has(st.tree, 1) THEN st
               ELSE [st EXCEPT !.tree = Put(st.tree, 1, <<>>),
                               !.paths = Put(st.paths, 1, Slash)]
    IN  BuildParents(st0, ino, dents)

\* the trimmed concatenation both reconstruct_ functions compute
Assemble(ino, blocks, inum) ==
    LET content == Concat(SortBlocks(Get(blocks, inum)))
    IN  IF Has(ino, inum) /\ Get(ino, inum).size > 0 /\ Len(content) > Get(ino, inum).size
        THEN SubSeq(content, 1, Get(ino, inum).size)
        ELSE content

reconstruct_symlink_target(ino, blocks, inum) ==
    IF ~Has(blocks, inum) THEN <<>>
    ELSE RStripNul(Utf8Decode(Assemble(ino, blocks, inum)))

reconstruct_file_content(ino, blocks, inum) ==
    IF ~Has(blocks, inum) THEN <<>> ELSE Assemble(ino, blocks, inum)

\* _extract_symlink_targets, over the inodes from the k-th on
RECURSIVE extract_symlink_targets(_, _, _, _)
extract_symlink_targets(targets, ino, blocks, k) ==
    IF k > Len(ino) THEN targets
    ELSE LET inum == ino[k].k
             target == reconstruct_symlink_target(ino, blocks, inum)
         IN  extract_symlink_targets(
                 IF ino[k].v.type = UBIFS_ITYPE_LNK /\ target # <<>>
                 THEN Put(targets, inum, target) ELSE targets,
                 ino, blocks, k + 1)

\* _print_tree(inum, ...) returns (TRUE), or recurses without end and Python raises
\* RecursionError (FALSE): nothing changes between the calls, so a call for an
\* inum already on the call stack repeats for ever.
RECURSIVE print_tree_returns(_, _)
print_tree_returns(inum, stack) ==
    IF ~Has(inode_paths, inum) THEN TRUE
    ELSE IF inum \in stack THEN FALSE
    ELSE IF Has(directory_tree, inum)
    THEN LET children == Get(directory_tree, inum)
         IN  \A i \in 1..Len(children) :
                print_tree_returns(children[i].v, stack \cup {inum})
    ELSE TRUE

(***************************************************************************)
(* process_parsed_nodes(headers, parsed_nodes)                             *)
(***************************************************************************)
\* the nodes from the k-th on whose header has node_type t
RECURSIVE OfType(_, _)
OfType(t, k) ==
    IF k > Len(nodes) THEN <<>>
    ELSE (IF headers[k].node_type = t THEN <<nodes[k]>> ELSE <<>>) \o OfType(t, k + 1)

\* the loop that runs next, from phase p on: a loop over an empty list is passed
PhaseFrom(p, ino, data, dent) ==
    IF p = "ino" /\ ino # <<>> THEN "ino"
    ELSE IF p \in {"ino", "data"} /\ data # <<>> THEN "data"
    ELSE IF p \in {"ino", "data", "dent"} /\ dent # <<>> THEN "dent"
    ELSE "build"

frame == <<image, fpos, offset, offsets, headers, nodes, scan>>

\* first pass: collect all nodes by type
Classify ==
    /\ pc = "classify"
    /\ ino_nodes' = OfType(0, 1)
    /\ dent_nodes' = OfType(2, 1)
    /\ data_nodes' = OfType(1, 1)
    /\ pc' = PhaseFrom("ino", ino_nodes', data_nodes', dent_nodes')
    /\ idx' = 1
    /\ UNCHANGED <<inodes, dir_entries, data_blocks, directory_tree, inode_paths,
                   hard_links, symlink_targets, created_files, ops, exc>>
    /\ UNCHANGED frame

\* for node in ino_nodes: self.add_inode_node(node)
AddInode ==
    /\ pc = "ino"
    /\ ~add_inode_node_raises(ino_nodes[idx])
    /\ inodes' = add_inode_node(inodes, ino_nodes[idx])
    /\ IF idx < Len(ino_nodes)
       THEN idx' = idx + 1 /\ pc' = pc
       ELSE idx' = 1 /\ pc' = PhaseFrom("data", ino_nodes, data_nodes, dent_nodes)
    /\ UNCHANGED <<ino_nodes, dent_nodes, data_nodes, dir_entries, data_blocks,
                   directory_tree, inode_paths, hard_links, symlink_targets,
                   created_files, ops, exc>>
    /\ UNCHANGED frame

\* add_inode_node raises: process_parsed_nodes is left
AddInodeRaise ==
    /\ pc = "ino"
    /\ add_inode_node_raises(ino_nodes[idx])
    /\ pc' = "raised"
    /\ exc' = "AttributeError"
    /\ UNCHANGED <<idx, ino_nodes, dent_nodes, data_nodes, inodes, dir_entries,
                   data_blocks, directory_tree, inode_paths, hard_links,
                   symlink_targets, created_files, ops>>
    /\ UNCHANGED frame

\* for node in data_nodes: self.add_data_node(node)
AddData ==
    /\ pc = "data"
    /\ data_blocks' = add_data_node(data_blocks, data_nodes[idx])
    /\ IF idx < Len(data_nodes)
       THEN idx' = idx + 1 /\ pc' = pc
       ELSE idx' = 1 /\ pc' = PhaseFrom("dent", ino_nodes, data_nodes, dent_nodes)
    /\ UNCHANGED <<ino_nodes, dent_nodes, data_nodes, inodes, dir_entries,
                   directory_tree, inode_paths, hard_links, symlink_targets,
                   created_files, ops, exc>>
    /\ UNCHANGED frame

\* for node in dent_nodes: parent_inum = getattr(node, 'parent_inum', None) or
\* getattr(node, 'dir_inum', None); self.add_dent_node(node, parent_inum)
AddDent ==
    /\ pc = "dent"
    /\ dir_entries' =
            add_dent_node(dir_entries, dent_nodes[idx],
                          ParentAttribute(dent_nodes[idx], {"parent_inum", "dir_inum"}))
    /\ IF idx < Len(dent_nodes)
       THEN idx' = idx + 1 /\ pc' = pc
       ELSE idx' = 1 /\ pc' = "build"
    /\ UNCHANGED <<ino_nodes, dent_nodes, data_nodes, inodes, data_blocks,
                   directory_tree, inode_paths, hard_links, symlink_targets,
                   created_files, ops, exc>>
    /\ UNCHANGED frame

\* self.build_directory_tree(), _extract_symlink_targets included
BuildDirectoryTree ==
    /\ pc = "build"
    /\ LET st == build_directory_tree(
                    [tree |-> directory_tree, paths |-> inode_paths, links |-> hard_links],
                    inodes, dir_entries)
       IN  /\ directory_tree' = st.tree
           /\ inode_paths' = st.paths
           /\ hard_links' = st.links
    /\ symlink_targets' = extract_symlink_targets(symlink_targets, inodes, data_blocks, 1)
    /\ pc' = "print"
    /\ UNCHANGED <<idx, ino_nodes, dent_nodes, data_nodes, inodes, dir_entries,
                   data_blocks, created_files, ops, exc>>
    /\ UNCHANGED frame

\* self.print_filesystem_info(): it changes nothing and returns
PrintFilesystemInfo ==
    /\ pc = "print"
    /\ print_tree_returns(1, {})
    /\ pc' = "mkdirs"
    /\ UNCHANGED <<idx, ino_nodes, dent_nodes, data_nodes, inodes, dir_entries,
                   data_blocks, directory_tree, inode_paths, hard_links,
                   symlink_targets, created_files, ops, exc>>
    /\ UNCHANGED frame

\* self.print_filesystem_info(): _print_tree(1, "", True) raises RecursionError
PrintFilesystemInfoRaise ==
    /\ pc = "print"
    /\ ~print_tree_returns(1, {})
    /\ pc' = "raised"
    /\ exc' = "RecursionError"
    /\ UNCHANGED <<idx, ino_nodes, dent_nodes, data_nodes, inodes, dir_entries,
                   data_blocks, directory_tree, inode_paths, hard_links,
                   symlink_targets, created_files, ops>>
    /\ UNCHANGED frame

(***************************************************************************)
(* create_filesystem_structure.  ops records the calls that change the     *)
(* output directory: [op, path, arg], paths relative to output_dir         *)
(* (path.lstrip('/')).  os.chmod and os.utime are not recorded.            *)
(***************************************************************************)
\* path.lstrip('/')
RECURSIVE LStrip(_)
LStrip(path) == IF path # <<>> /\ path[1] = 47 THEN LStrip(Tail(path)) ELSE path

\* Path.parent of a relative path: what precedes its last '/'
RECURSIVE Parent(_)
Parent(path) ==
    IF path = <<>> THEN <<>>
    ELSE IF path[Len(path)] = 47 THEN SubSeq(path, 1, Len(path) - 1)
    ELSE Parent(SubSeq(path, 1, Len(path) - 1))

Op(op, path, arg) == [op |-> op, path |-> path, arg |-> arg]

\* the directory exists: output_dir itself, or a directory made before
DirExists(log, path) ==
    \/ path = <<>>
    \/ \E i \in 1..Len(log) : log[i].op = "mkdir" /\ log[i].path = path

\* link_path.exists(): a file, hard link or symlink was made there and not unlinked
FileExists(log, path) ==
    \E i \in 1..Len(log) :
        /\ log[i].op \in {"write", "link", "symlink"}
        /\ log[i].path = path
        /\ \A j \in (i + 1)..Len(log) : ~(log[j].op = "unlink" /\ log[j].path = path)

\* dir.mkdir(parents=True, exist_ok=True)
MkDir(log, path) == IF DirExists(log, path) THEN log ELSE Append(log, Op("mkdir", path, <<>>))

\* "for inum, path in self.inode_paths.items()": the directories, from the k-th on
RECURSIVE MkDirs(_, _)
MkDirs(log, k) ==
    IF k > Len(inode_paths) THEN log
    ELSE MkDirs(
            IF /\ Has(inodes, inode_paths[k].k)
               /\ Get(inodes, inode_paths[k].k).type = UBIFS_ITYPE_DIR
            THEN MkDir(log, LStrip(inode_paths[k].v)) ELSE log,
            k + 1)

\* "for additional_path in paths[1:]": os.link(file_path, link_path)
RECURSIVE LinkOps(_, _, _)
LinkOps(log, paths, first) ==
    IF paths = <<>> THEN log
    ELSE LET link_path == LStrip(paths[1])
             log1 == MkDir(log, Parent(link_path))
             log2 == IF FileExists(log1, link_path)
                     THEN Append(log1, Op("unlink", link_path, <<>>)) ELSE log1
         IN  LinkOps(Append(log2, Op("link", link_path, first)), Tail(paths), first)

\* _create_symbolic_link: "for path in paths": os.symlink(target, link_path)
RECURSIVE SymlinkOps(_, _, _)
SymlinkOps(log, paths, target) ==
    IF paths = <<>> THEN log
    ELSE LET link_path == LStrip(paths[1])
             log1 == MkDir(log, Parent(link_path))
             log2 == IF FileExists(log1, link_path)
                     THEN Append(log1, Op("unlink", link_path, <<>>)) ELSE log1
         IN  SymlinkOps(Append(log2, Op("symlink", link_path, target)), Tail(paths), target)

\* _create_regular_file: what it writes and links, paths the sorted path list
RegularFileOps(log, inum, paths) ==
    LET file_path == LStrip(paths[1])
        log1 == MkDir(log, Parent(file_path))
        content == reconstruct_file_content(inodes, data_blocks, inum)
    IN  LinkOps(Append(log1, Op("write", file_path, content)), Tail(paths), file_path)

\* self.output_dir.mkdir(exist_ok=True) and "Create directories first"
CreateDirectories ==
    /\ pc = "mkdirs"
    /\ ops' = MkDirs(Append(ops, Op("mkdir_root", <<>>, <<>>)), 1)
    /\ pc' = IF inodes = <<>> THEN "done" ELSE "files"
    /\ idx' = 1
    /\ UNCHANGED <<ino_nodes, dent_nodes, data_nodes, inodes, dir_entries, data_blocks,
                   directory_tree, inode_paths, hard_links, symlink_targets,
                   created_files, exc>>
    /\ UNCHANGED frame

\* one iteration of "for inum, inode_info in self.inodes.items()"
CreateNext ==
    /\ pc = "files"
    /\ LET inum == inodes[idx].k
           inode_info == inodes[idx].v
           paths == GetOr(hard_links, inum, <<>>)
           target == GetOr(symlink_targets, inum, <<>>)
       IN  IF inode_info.type = UBIFS_ITYPE_REG /\ paths # <<>>
           THEN \* _create_regular_file: paths.sort() sorts the list of hard_links
                /\ hard_links' = Put(hard_links, inum, SortPaths(paths))
                /\ ops' = RegularFileOps(ops, inum, SortPaths(paths))
                /\ created_files' = Put(created_files, inum, LStrip(SortPaths(paths)[1]))
           ELSE IF inode_info.type = UBIFS_ITYPE_LNK /\ paths # <<>> /\ target # <<>>
           THEN \* _create_symbolic_link
                /\ ops' = SymlinkOps(ops, paths, target)
                /\ UNCHANGED <<hard_links, created_files>>
           ELSE UNCHANGED <<hard_links, created_files, ops>>
    /\ IF idx < Len(inodes) THEN idx' = idx + 1 /\ pc' = pc ELSE idx' = idx /\ pc' = "done"
    /\ UNCHANGED <<ino_nodes, dent_nodes, data_nodes, inodes, dir_entries, data_blocks,
                   directory_tree, inode_paths, symlink_targets, exc>>
    /\ UNCHANGED frame

(***************************************************************************)
(* The node lists process_parsed_nodes is given: what parse_ubifs_image    *)
(* emits for an image made of at most MaxNodes different nodes of the      *)
(* catalogue.  The first pass sorts the nodes by type, so only the order   *)
(* among the nodes of one type bears on what follows; every such order is  *)
(* taken, with the types laid out as INO, DENT, DATA, others.              *)
(***************************************************************************)
MaxNodes == 5

\* UBIFSInoNode.build
InoPayload(inum, size, mode, nlink, data) ==
    LE(inum, 4) \o LE(0, 4) \o Zeros(UBIFS_KEY_LEN - 8) \o LE(0, 8) \o LE(size, 8)
        \o LE(0, 8) \o LE(0, 8) \o LE(0, 8) \o LE(0, 4) \o LE(0, 4) \o LE(0, 4)
        \o LE(nlink, 4) \o LE(0, 4) \o LE(0, 4) \o LE(mode, 4) \o LE(0, 4)
        \o LE(Len(data), 4) \o LE(0, 4) \o LE(0, 4) \o Zeros(4) \o LE(0, 4) \o LE(0, 2)
        \o Zeros(26) \o data

\* what the scanner emits for the bytes of one node
Emitted(bytes) ==
    LET h == UBIFSHeader(SubSeq(bytes, 1, UBIFS_HEADER_SIZE))
    IN  [header |-> h,
         node |-> Parse(NodeTypeStr(h.node_type), From(bytes, UBIFS_HEADER_SIZE))]

ModeDir == UBIFS_ITYPE_DIR + 493    \* 0o755
ModeReg == UBIFS_ITYPE_REG + 420    \* 0o644
ModeLnk == UBIFS_ITYPE_LNK + 511    \* 0o777

Catalogue ==
    << \* INO nodes: the root, a directory, a file written twice, a symlink with
       \* an inline target, a short INO node (UBIFSInoRouteNode)
       Emitted(NodeBytes(1, 0, InoPayload(1, 0, ModeDir, 2, <<>>))),
       Emitted(NodeBytes(2, 0, InoPayload(2, 0, ModeDir, 2, <<>>))),
       Emitted(NodeBytes(5, 0, InoPayload(3, 8192, ModeReg, 2, <<>>))),
       Emitted(NodeBytes(3, 0, InoPayload(3, 0, ModeReg, 1, <<>>))),
       Emitted(NodeBytes(4, 0, InoPayload(4, 2, ModeLnk, 1, <<47, 116>>))),
       Emitted(NodeBytes(6, 0, InoRoutePayload(2, 0))),
       \* DENT nodes: d -> 2 in 1, a -> 3 in 2, z -> 3 in 1, l -> 4 in 1, x -> 1 in 2,
       \* z -> 0 in 1
       Emitted(NodeBytes(7, 2, DentPayload(1, 2, 1, <<100>>))),
       Emitted(NodeBytes(8, 2, DentPayload(2, 3, 0, <<97>>))),
       Emitted(NodeBytes(9, 2, DentPayload(1, 3, 0, <<122>>))),
       Emitted(NodeBytes(10, 2, DentPayload(1, 4, 2, <<108>>))),
       Emitted(NodeBytes(11, 2, DentPayload(2, 1, 1, <<120>>))),
       Emitted(NodeBytes(12, 2, DentPayload(1, 0, 0, <<122>>))),
       \* DATA nodes: blocks 0 and 1 of inode 3, block 0 of inode 4, block 0 of
       \* inode 3 written again
       Emitted(NodeBytes(13, 1, DataPayload(3, 0, <<104, 101>>))),
       Emitted(NodeBytes(14, 1, DataPayload(3, 1, <<88>>))),
       Emitted(NodeBytes(15, 1, DataPayload(4, 0, <<47, 117, 0>>))),
       Emitted(NodeBytes(17, 1, DataPayload(3, 0, <<72, 73>>))),
       \* a PAD node
       Emitted(NodeBytes(16, 5, LE(4, 4) \o Zeros(4))) >>

OfNodeType(S, t) == {c \in S : Catalogue[c].header.node_type = t}

\* the orders of a set: the sequences that hold each element once
Orders(S) ==
    {f \in [1..Cardinality(S) -> S] : \A i, j \in 1..Cardinality(S) : i # j => f[i] # f[j]}

\* offsets of nodes laid out one after the other
RECURSIVE LaidOut(_, _, _)
LaidOut(order, k, at) ==
    IF k > Len(order) THEN <<>>
    ELSE <<at>> \o LaidOut(order, k + 1, at + Catalogue[order[k]].header.len)

ReconInit ==
    /\ \E S \in SUBSET (1..Len(Catalogue)) :
        /\ Cardinality(S) <= MaxNodes
        /\ \E oi \in Orders(OfNodeType(S, 0)), oe \in Orders(OfNodeType(S, 2)),
              od \in Orders(OfNodeType(S, 1)), op \in Orders(OfNodeType(S, 5)) :
            LET order == oi \o oe \o od \o op
            IN  /\ headers = [k \in 1..Len(order) |-> Catalogue[order[k]].header]
                /\ nodes = [k \in 1..Len(order) |-> Catalogue[order[k]].node]
                /\ offsets = LaidOut(order, 1, 0)
    \* parse_ubifs_image has returned and closed the file
    /\ image = <<>> /\ fpos = 0 /\ offset = 0
    /\ scan = "returned"
    /\ exc = ""
    /\ ReconFresh
    /\ pc = "classify"
    /\ idx = 0
    /\ ino_nodes = <<>> /\ dent_nodes = <<>> /\ data_nodes = <<>>

ReconNext ==
    \/ Classify
    \/ AddInode
    \/ AddInodeRaise
    \/ AddData
    \/ AddDent
    \/ BuildDirectoryTree
    \/ PrintFilesystemInfo
    \/ PrintFilesystemInfoRaise
    \/ CreateDirectories
    \/ CreateNext

(***************************************************************************)
(* parse_ubifs_image: one action per way an iteration of the loop ends.    *)
(***************************************************************************)
\* data = f.read(UBIFS_HEADER_SIZE)
HeaderData == SubSeq(image, fpos + 1, Min(fpos + UBIFS_HEADER_SIZE, Len(image)))
HeaderRead == Len(HeaderData) = UBIFS_HEADER_SIZE
\* header.magic, the one field read on every iteration; the other fields are
\* decoded only behind a valid magic
HeaderMagic == UInt(HeaderData, 0, 4)
Header == UBIFSHeader(HeaderData)
Body ==
    process_node(NodeTypeStr(Header.node_type), Header.len - UBIFS_HEADER_SIZE,
                 image, fpos + UBIFS_HEADER_SIZE)

\* len(data) < UBIFS_HEADER_SIZE: break, and the function returns the three lists
ScanEof ==
    /\ scan = "running"
    /\ ~HeaderRead
    /\ scan' = "returned"
    /\ fpos' = fpos + Len(HeaderData)
    /\ UNCHANGED <<image, offset, offsets, headers, nodes, exc>>
    /\ UNCHANGED reconVars

\* ScanResync without f.seek(offset): the next read continues behind the 24 bytes
ScanResyncNoSeek ==
    /\ scan = "running"
    /\ HeaderRead
    /\ HeaderMagic # UBIFS_NODE_MAGIC
    /\ offset' = offset + 1
    /\ fpos' = fpos + UBIFS_HEADER_SIZE
    /\ UNCHANGED <<image, offsets, headers, nodes, scan, exc>>
    /\ UNCHANGED reconVars

\* header.magic != UBIFS_NODE_MAGIC: offset += 1; f.seek(offset); continue
ScanResync ==
    /\ scan = "running"
    /\ HeaderRead
    /\ HeaderMagic # UBIFS_NODE_MAGIC
    /\ offset' = offset + 1
    /\ fpos' = offset + 1
    /\ UNCHANGED <<image, offsets, headers, nodes, scan, exc>>
    /\ UNCHANGED reconVars

\* ScanEmit with the cursor advanced by the payload's length, header.len - 24
ScanEmitAdvanceByPayload ==
    /\ scan = "running"
    /\ HeaderRead
    /\ HeaderMagic = UBIFS_NODE_MAGIC
    /\ Body.exc = ""
    /\ Body.node # None
    /\ nodes' = Append(nodes, Body.node)
    /\ headers' = Append(headers, Header)
    /\ offsets' = Append(offsets, offset)
    /\ offset' = offset + Header.len - UBIFS_HEADER_SIZE
    /\ fpos' = Body.fpos
    /\ UNCHANGED <<image, scan, exc>>
    /\ UNCHANGED reconVars

\* process_node returns a body that is not None: the three appends, offset += header.len
ScanEmit ==
    /\ scan = "running"
    /\ HeaderRead
    /\ HeaderMagic = UBIFS_NODE_MAGIC
    /\ Body.exc = ""
    /\ Body.node # None
    /\ nodes' = Append(nodes, Body.node)
    /\ headers' = Append(headers, Header)
    /\ offsets' = Append(offsets, offset)
    /\ offset' = offset + Header.len
    /\ fpos' = Body.fpos
    /\ UNCHANGED <<image, scan, exc>>
    /\ UNCHANGED reconVars

\* ScanSkip without offset += header.len
ScanSkipNoAdvance ==
    /\ scan = "running"
    /\ HeaderRead
    /\ HeaderMagic = UBIFS_NODE_MAGIC
    /\ Body.exc = ""
    /\ Body.node = None
    /\ offset' = offset
    /\ fpos' = Body.fpos
    /\ UNCHANGED <<image, offsets, headers, nodes, scan, exc>>
    /\ UNCHANGED reconVars

\* process_node returns None (CS_NODE): nothing is appended, offset += header.len
ScanSkip ==
    /\ scan = "running"
    /\ HeaderRead
    /\ HeaderMagic = UBIFS_NODE_MAGIC
    /\ Body.exc = ""
    /\ Body.node = None
    /\ offset' = offset + Header.len
    /\ fpos' = Body.fpos
    /\ UNCHANGED <<image, offsets, headers, nodes, scan, exc>>
    /\ UNCHANGED reconVars

\* process_node raises: nothing in parse_ubifs_image catches it, the call is left
\* without a return value
ScanRaise ==
    /\ scan = "running"
    /\ HeaderRead
    /\ HeaderMagic = UBIFS_NODE_MAGIC
    /\ Body.exc # ""
    /\ scan' = "raised"
    /\ exc' = Body.exc
    /\ fpos' = Body.fpos
    /\ UNCHANGED <<image, offset, offsets, headers, nodes>>
    /\ UNCHANGED reconVars

(***************************************************************************)
(* Images: every concatenation of at most MaxSegs segments of the          *)
(* catalogue.                                                              *)
(***************************************************************************)
MaxSegs == 3

SegDATA == NodeBytes(6, 1, DataPayload(3, 0, <<104, 105>>))
SegDENT == NodeBytes(9, 2, DentPayload(1, 3, 0, <<97>>))
SegINO == NodeBytes(3, 0, InoRoutePayload(0, 2))
SegCS == NodeBytes(7, 10, LE(1, 8))
SegUNKNOWN == NodeBytes(8, 12, <<1, 2, 3, 4>>)
\* a header whose len is 24: no payload
SegEMPTY == HeaderBytes(4, UBIFS_HEADER_SIZE, 5)
\* a header whose len is below 24
SegSHORTLEN == HeaderBytes(5, 8, 1)
\* a DATA node that lacks its last byte
SegCUT == SubSeq(SegDATA, 1, Len(SegDATA) - 1)
\* a DATA node whose payload is shorter than UBIFSDataNode
SegSHORTDATA == NodeBytes(2, 1, <<1, 0, 0, 0, 0, 0>>)
\* garbage: 17 zero bytes, and the first two bytes of the magic
SegZEROS == Zeros(17)
SegHALFMAGIC == SubSeq(LE(UBIFS_NODE_MAGIC, 4), 1, 2)

Segments ==
    {SegDATA, SegDENT, SegINO, SegCS, SegUNKNOWN, SegEMPTY, SegSHORTLEN, SegCUT,
     SegSHORTDATA, SegZEROS, SegHALFMAGIC}

RECURSIVE Images(_)
Images(n) ==
    IF n = 0 THEN {<<>>}
    ELSE Images(n - 1) \cup {i \o s : i \in Images(n - 1), s \in Segments}

ScanInit ==
    /\ image \in Images(MaxSegs)
    /\ fpos = 0
    /\ offset = 0
    /\ offsets = <<>>
    /\ headers = <<>>
    /\ nodes = <<>>
    /\ scan = "running"
    /\ exc = ""
    /\ ReconFresh
    /\ pc = "idle"
    /\ idx = 0
    /\ ino_nodes = <<>> /\ dent_nodes = <<>> /\ data_nodes = <<>>

ScanNext == ScanEof \/ ScanResync \/ ScanEmit \/ ScanSkip \/ ScanRaise

vars == <<scanVars, reconVars>>

SpecScan == ScanInit /\ [][ScanNext]_vars

\* The scan of the images of at most MaxFairSegs segments, with the loop of
\* parse_ubifs_image running as long as it can: the program has one thread, and
\* nothing but the loop's own exits stops it.
MaxFairSegs == 2

ScanInitFair == ScanInit /\ image \in Images(MaxFairSegs)

SpecScanFair == ScanInitFair /\ [][ScanNext]_vars /\ WF_vars(ScanNext)

SpecRecon == ReconInit /\ [][ReconNext]_vars

(***************************************************************************)
(* The scanner's claims (SpecScan)                                         *)
(***************************************************************************)
Last(s) == s[Len(s)]

\* the 4 bytes at position p of the image decode to the magic
MagicAt(p) ==
    /\ p + 4 <= Len(image)
    /\ image[p + 1] = UBIFS_NODE_MAGIC % 256
    /\ UInt(image, p, 4) = UBIFS_NODE_MAGIC

NoMagicIn(c, K) == \A p \in c..(K - 1) : ~MagicAt(p)

HeaderAt(K) == UBIFSHeader(SubSeq(image, K + 1, K + UBIFS_HEADER_SIZE))

\* A well-formed node starts at K: a header with the magic and a known type, a
\* payload that lies in the image and is long enough for the type's layout.
WellFormedAt(K) ==
    /\ MagicAt(K)
    /\ K + UBIFS_HEADER_SIZE <= Len(image)
    /\ HeaderAt(K).node_type \in DOMAIN UBIFS_NODE_TYPES
    /\ HeaderAt(K).len > UBIFS_HEADER_SIZE
    /\ K + HeaderAt(K).len <= Len(image)
    /\ Parses(NodeTypeStr(HeaderAt(K).node_type),
              SubSeq(image, K + UBIFS_HEADER_SIZE + 1, K + HeaderAt(K).len))

\* a header was read at the cursor and its magic is wrong: the cursor moves one
\* byte, the file position follows it, and the scan goes on
ResyncStep ==
    (scan = "running" /\ HeaderRead /\ HeaderMagic # UBIFS_NODE_MAGIC)
        => /\ offset' = offset + 1
           /\ fpos' = offset'
           /\ scan' = "running"
           /\ offsets' = offsets

\* the cursor is at or before K, in a region without magic before K: the step
\* keeps it there, or emits the node at K with offset K
ReachStep(K) ==
    (scan = "running" /\ fpos = offset /\ offset <= K /\ NoMagicIn(offset, K))
        => \/ scan' = "running" /\ fpos' = offset' /\ offset' <= K
           \/ offsets' = Append(offsets, K) /\ headers' = Append(headers, HeaderAt(K))

\* C1 as stated: after a magic mismatch the cursor advances by exactly one byte
\* and the scan retries; every well-formed node at an offset K that the cursor
\* approaches through a region without magic is emitted with offset K.
C1_ResyncFindsEveryNode ==
    [][/\ ResyncStep
       /\ \A K \in offset..Len(image) : WellFormedAt(K) => ReachStep(K)]_vars

\* C1 amended: the same, for the nodes the decoder returns a value for, which are
\* all well-formed nodes but CS_NODE (type 10): process_node returns None for it
\* and the scanner appends nothing.
C1_ResyncFindsDecodedNode ==
    [][/\ ResyncStep
       /\ \A K \in offset..Len(image) :
            (WellFormedAt(K) /\ HeaderAt(K).node_type # 10) => ReachStep(K)]_vars

\* 17 zero bytes were crossed byte by byte and the DATA node behind them was emitted
C1_Witness ==
    /\ Len(image) > 17
    /\ SubSeq(image, 1, 17) = Zeros(17)
    /\ Len(offsets) >= 1
    /\ offsets[1] = 17
    /\ headers[1].node_type = 1

\* C2: every record the scanner emits has the magic in its header, and the
\* payload read for it has exactly header.len - 24 bytes.
C2_EmittedRecord ==
    [][Len(offsets') > Len(offsets)
        => /\ Len(offsets') = Len(headers') /\ Len(headers') = Len(nodes')
           /\ Last(headers').magic = UBIFS_NODE_MAGIC
           /\ fpos' - (fpos + UBIFS_HEADER_SIZE) = Last(headers').len - UBIFS_HEADER_SIZE
           /\ Last(offsets') + Last(headers').len <= Len(image)]_vars

\* a node with a payload was emitted
C2_Witness ==
    /\ Len(offsets) >= 1
    /\ Last(headers).len > UBIFS_HEADER_SIZE
    /\ fpos = Last(offsets) + Last(headers).len

\* C9: a header with the magic and a node_type outside 0..11 (its payload in the
\* image) does not abort the scan: a node is appended for it and the scan goes on
\* at offset + len.
C9_UnknownTypeTolerated ==
    [][(/\ scan = "running" /\ HeaderRead /\ HeaderMagic = UBIFS_NODE_MAGIC
        /\ Header.node_type \notin DOMAIN UBIFS_NODE_TYPES
        /\ Header.len > UBIFS_HEADER_SIZE
        /\ offset + Header.len <= Len(image))
        => /\ scan' = "running"
           /\ offsets' = Append(offsets, offset)
           /\ Len(nodes') = Len(nodes) + 1
           /\ offset' = offset + Header.len]_vars

\* C10: a header with the magic whose len exceeds the bytes left ends the scan, and
\* parse_ubifs_image returns the nodes emitted so far.
C10_TruncatedNodeKeepsResult ==
    [][(/\ scan = "running" /\ HeaderRead /\ HeaderMagic = UBIFS_NODE_MAGIC
        /\ Header.node_type \in DOMAIN UBIFS_NODE_TYPES
        /\ Header.len > UBIFS_HEADER_SIZE
        /\ offset + Header.len > Len(image))
        => /\ scan' = "returned"
           /\ offsets' = offsets /\ headers' = headers /\ nodes' = nodes]_vars

(***************************************************************************)
(* The reconstructor's claims (SpecRecon)                                  *)
(***************************************************************************)
Range(s) == {s[i] : i \in 1..Len(s)}

\* the inventory is complete: the three loops of process_parsed_nodes are over
Inventoried == pc \in {"build", "print", "mkdirs", "files", "done"}

\* the k-th node is an INO node and no INO node of the same inum has a greater sqnum
NewestIno(k) ==
    /\ headers[k].node_type = 0
    /\ \A j \in 1..Len(nodes) :
        (headers[j].node_type = 0 /\ nodes[j].inum = nodes[k].inum)
            => headers[j].sqnum <= headers[k].sqnum

\* C3: of several INO nodes with the same inum, inodes[inum] holds the record of
\* the one with the greatest sqnum, whatever their order in the image.
C3_InodeSequenceDominance ==
    pc = "done" =>
        \A k \in 1..Len(nodes) :
            NewestIno(k) =>
                /\ Has(inodes, nodes[k].inum)
                /\ Get(inodes, nodes[k].inum) = FileInfo(nodes[k])

\* C4: the content reconstructed for a regular file with data blocks has exactly
\* the declared size of its inode.
C4_ContentLengthIsSize ==
    pc = "done" =>
        \A i \in 1..Len(inodes) :
            (inodes[i].v.type = UBIFS_ITYPE_REG /\ Has(data_blocks, inodes[i].k))
                => Len(reconstruct_file_content(inodes, data_blocks, inodes[i].k))
                        = inodes[i].v.size

\* the block size B of the content assembler
BlockSize == 4 * 1024

\* byte position p (from 1) of the file lies in the payload of one of the blocks
Covered(blocks, p) ==
    \E b \in Range(blocks) :
        p > b.block_num * BlockSize /\ p <= b.block_num * BlockSize + Len(b.data)

\* C5: in the content of a regular file the payload of block i starts at byte
\* offset i * B, and every position inside the declared size that no block covers
\* reads as zero.
C5_SparsePlacement ==
    pc = "done" =>
        \A i \in 1..Len(inodes) :
            (inodes[i].v.type = UBIFS_ITYPE_REG /\ Has(data_blocks, inodes[i].k)) =>
                LET content == reconstruct_file_content(inodes, data_blocks, inodes[i].k)
                    blocks == Get(data_blocks, inodes[i].k)
                    size == inodes[i].v.size
                IN  /\ \A b \in Range(blocks) : \A j \in 1..Len(b.data) :
                        LET p == b.block_num * BlockSize + j
                        IN  p <= size => (p <= Len(content) /\ content[p] = b.data[j])
                    /\ \A p \in 1..size :
                        ~Covered(blocks, p) => (p <= Len(content) /\ content[p] = 0)

\* C6: for a symlink inode whose INO node carries inline data, symlink_targets
\* holds that data, decoded and without trailing NULs, with or without DATA nodes.
C6_InlineSymlinkTarget ==
    pc = "done" =>
        \A k \in 1..Len(nodes) :
            (/\ NewestIno(k)
             /\ nodes[k].kind = "Ino"
             /\ FileType(nodes[k].mode) = UBIFS_ITYPE_LNK
             /\ nodes[k].data # <<>>)
                => /\ Has(symlink_targets, nodes[k].inum)
                   /\ Get(symlink_targets, nodes[k].inum)
                        = RStripNul(Utf8Decode(nodes[k].data))

\* C7: every DENT node is filed in dir_entries under the parent its key field
\* names (key_inum).
C7_DentUnderKeyParent ==
    Inventoried =>
        \A k \in 1..Len(nodes) :
            headers[k].node_type = 2 =>
                /\ Has(dir_entries, nodes[k].key_inum)
                /\ \E e \in Range(Get(dir_entries, nodes[k].key_inum)) :
                    /\ e.inum = nodes[k].inum
                    /\ e.name = Utf8Decode(nodes[k].name)
                    /\ e.parent_inum = nodes[k].key_inum

\* The walk C8 names: depth first from the root, the entries of a directory (the
\* DENT nodes whose key_inum it is, '.' and '..' left out) in ascending name
\* order, no directory entered twice.
EntriesOf(p) ==
    {[name |-> Utf8Decode(nodes[k].name), inum |-> nodes[k].inum] :
        k \in {j \in 1..Len(nodes) :
                /\ headers[j].node_type = 2
                /\ nodes[j].key_inum = p
                /\ Utf8Decode(nodes[j].name) \notin DotNames}}

RECURSIVE ByName(_)
ByName(S) ==
    IF S = {} THEN <<>>
    ELSE LET first == CHOOSE e \in S :
                        \A f \in S : f = e \/ StrLess(e.name, f.name)
                                        \/ (e.name = f.name /\ e.inum <= f.inum)
         IN  <<first>> \o ByName(S \ {first})

IsDirectory(c) == Has(inodes, c) /\ Get(inodes, c).type = UBIFS_ITYPE_DIR

RECURSIVE Walk(_, _, _)
Walk(entries, pp, st) ==
    IF entries = <<>> THEN st
    ELSE LET e == entries[1]
             cp == IF pp = Slash THEN Slash \o e.name ELSE pp \o Slash \o e.name
             st1 == [st EXCEPT !.found = Append(@, [inum |-> e.inum, path |-> cp])]
             st2 == IF IsDirectory(e.inum) /\ e.inum \notin st1.visited
                    THEN Walk(ByName(EntriesOf(e.inum)), cp,
                              [st1 EXCEPT !.visited = @ \cup {e.inum}])
                    ELSE st1
         IN  Walk(Tail(entries), pp, st2)

\* the paths of the walk, in the order it discovers them
Discovered == Walk(ByName(EntriesOf(1)), Slash, [found |-> <<>>, visited |-> {1}]).found

PathsOf(inum) == {f.path : f \in {g \in Range(Discovered) : g.inum = inum}}

FirstPathOf(inum) ==
    Discovered[CHOOSE i \in 1..Len(Discovered) :
                /\ Discovered[i].inum = inum
                /\ \A j \in 1..(i - 1) : Discovered[j].inum # inum].path

\* the DENT nodes that refer to inum
Referrers(inum) ==
    {k \in 1..Len(nodes) :
        /\ headers[k].node_type = 2
        /\ nodes[k].inum = inum
        /\ Utf8Decode(nodes[k].name) \notin DotNames}

\* C8: for a file that several directory entries refer to, the recorded path list
\* holds every one of its paths, and the file is written at the path the walk
\* discovers first.
C8_CanonicalPathIsDfsFirst ==
    pc = "done" =>
        \A i \in 1..Len(created_files) :
            LET inum == created_files[i].k
            IN  (Cardinality(Referrers(inum)) >= 2
                    /\ Cardinality(PathsOf(inum)) = Cardinality(Referrers(inum)))
                => /\ PathsOf(inum) \subseteq Range(Get(hard_links, inum))
                   /\ created_files[i].v = LStrip(FirstPathOf(inum))

(***************************************************************************)
(* process_parsed_nodes as a whole (SpecRecon)                             *)
(***************************************************************************)
\* no directory entry of the input leads back to the root
NoEntryToRoot ==
    \A k \in 1..Len(nodes) : headers[k].node_type = 2 => nodes[k].inum # 1

\* C11: process_parsed_nodes is never left by an exception on a defect confined
\* to one inode (an INO node decoded from a short payload, an entry whose target
\* has no inode, data blocks without an inode): inventory, tree building and
\* materialization go on for the other inodes.
C11_NeverAbortsOnInodeDefect == NoEntryToRoot => pc # "raised"

\* the phase of the disk sink a call on the output directory belongs to:
\* directories, then regular files and their hard links, then symlinks; an
\* unlink that makes room for a link belongs to none
PhaseOf(o) ==
    CASE o.op \in {"mkdir_root", "mkdir"} -> 1
      [] o.op \in {"write", "link"} -> 2
      [] o.op = "symlink" -> 3
      [] OTHER -> 0

\* C12: in the calls create_filesystem_structure makes on the output directory
\* no call of an earlier phase follows a call of a later phase (directories
\* before regular files and hard links, symlinks last), and a hard link is made
\* only after the file was written at its canonical path.
C12_DiskSinkPhaseOrder ==
    /\ \A i, j \in 1..Len(ops) :
        (i < j /\ PhaseOf(ops[i]) # 0 /\ PhaseOf(ops[j]) # 0)
            => PhaseOf(ops[i]) <= PhaseOf(ops[j])
    /\ \A j \in 1..Len(ops) :
        ops[j].op = "link"
            => \E i \in 1..(j - 1) : ops[i].op = "write" /\ ops[i].path = ops[j].arg

\* build_directory_tree has run
Built == pc \in {"print", "mkdirs", "files", "done"}

\* pp joined with name
Join(pp, name) == IF pp = Slash THEN Slash \o name ELSE pp \o Slash \o name

\* the paths recorded for inode c: its path of inode_paths and its path list
RecordedPaths(c) ==
    (IF Has(inode_paths, c) THEN {Get(inode_paths, c)} ELSE {})
        \cup Range(GetOr(hard_links, c, <<>>))

\* C13: after build_directory_tree the root inode 1 has the path "/", every
\* recorded path starts with "/", and for every entry (name -> c) of a directory
\* p, '.' and '..' left out, a path recorded for c is p's final path joined with
\* name, whatever the order of the entries.
C13_PathComposition ==
    Built =>
        /\ Has(inode_paths, 1) /\ Get(inode_paths, 1) = Slash
        /\ \A i \in 1..Len(inode_paths) :
            \A path \in RecordedPaths(inode_paths[i].k) :
                path # <<>> /\ path[1] = Slash[1]
        /\ \A i \in 1..Len(dir_entries) :
            \A e \in Range(dir_entries[i].v) :
                (e.name \notin DotNames /\ Has(inode_paths, dir_entries[i].k))
                    => Join(Get(inode_paths, dir_entries[i].k), e.name)
                            \in RecordedPaths(e.inum)

\* the k-th node is a DATA node and no DATA node of the same inode and block has
\* a greater sqnum
NewestData(k) ==
    /\ headers[k].node_type = 1
    /\ \A j \in 1..Len(nodes) :
        (headers[j].node_type = 1 /\ nodes[j].inum = nodes[k].inum
            /\ nodes[j].block = nodes[k].block)
            => headers[j].sqnum <= headers[k].sqnum

\* C14: after the inventory data_blocks[inum] holds one block per block index,
\* and of several DATA nodes for the same inode and block it is the one with the
\* greatest sqnum.
C14_DataBlockSequenceDominance ==
    Inventoried =>
        \A i \in 1..Len(data_blocks) :
            LET blocks == data_blocks[i].v
            IN  /\ \A a, b \in 1..Len(blocks) :
                    blocks[a].block_num = blocks[b].block_num => a = b
                /\ \A k \in 1..Len(nodes) :
                    (NewestData(k) /\ nodes[k].inum = data_blocks[i].k)
                        => \E b \in Range(blocks) :
                            b.block_num = nodes[k].block /\ b.data = nodes[k].data

\* the k-th node is a DENT node and no DENT node of the same parent (key_inum)
\* and name has a greater sqnum
NewestDent(k) ==
    /\ headers[k].node_type = 2
    /\ \A j \in 1..Len(nodes) :
        (headers[j].node_type = 2 /\ nodes[j].key_inum = nodes[k].key_inum
            /\ nodes[j].name = nodes[k].name)
            => headers[j].sqnum <= headers[k].sqnum

\* the children of directory p in directory_tree
Children(p) == GetOr(directory_tree, p, <<>>)

\* C15: dir_entries holds at most one entry per parent and name; a name filed
\* under a parent resolves to the target of the DENT node of that parent and
\* name with the greatest sqnum; and when that node's target is 0 the name is no
\* child of the parent and no path is recorded for it.
C15_DentResolution ==
    Built =>
        \A i \in 1..Len(dir_entries) :
            LET p == dir_entries[i].k
                entries == dir_entries[i].v
            IN  /\ \A a, b \in 1..Len(entries) :
                    entries[a].name = entries[b].name => a = b
                /\ \A e \in Range(entries) : \A k \in 1..Len(nodes) :
                    (/\ NewestDent(k)
                     /\ nodes[k].key_inum = p
                     /\ Utf8Decode(nodes[k].name) = e.name
                     /\ e.name \notin DotNames) =>
                        IF nodes[k].inum = 0
                        THEN /\ ~Has(Children(p), e.name)
                             /\ \A c \in 1..Len(inode_paths) :
                                    Join(GetOr(inode_paths, p, Slash), e.name)
                                        \notin RecordedPaths(inode_paths[c].k)
                        ELSE /\ Has(Children(p), e.name)
                             /\ Get(Children(p), e.name) = nodes[k].inum

\* the inodes the directories of S have as children in directory_tree
ChildrenOf(S) == UNION {{Children(p)[j].v : j \in 1..Len(Children(p))} : p \in S}

\* the inodes reached from S along at most n edges of directory_tree
RECURSIVE Descendants(_, _)
Descendants(S, n) ==
    IF n = 0 THEN {} ELSE ChildrenOf(S) \cup Descendants(ChildrenOf(S), n - 1)

\* C16: when directory entries form a cycle the edge that closes it is dropped,
\* so no directory of directory_tree is reachable from itself, and the dump of
\* the tree (_print_tree) returns.
C16_CycleSafety ==
    /\ exc # "RecursionError"
    /\ Built =>
        \A i \in 1..Len(directory_tree) :
            directory_tree[i].k \notin Descendants({directory_tree[i].k}, Len(directory_tree))

(***************************************************************************)
(* The scanner's cursor (SpecScan)                                         *)
(***************************************************************************)
\* At the start of every iteration the file position is the cursor, and the
\* emitted nodes lie one behind the other, before the cursor.
CursorAgrees ==
    /\ scan = "running" => fpos = offset
    /\ \A i \in 1..Len(offsets) :
        /\ headers[i].len > 0
        /\ offsets[i] + headers[i].len
                <= (IF i < Len(offsets) THEN offsets[i + 1] ELSE offset)

\* a node was accepted at the cursor: the cursor moves by its header's len
AcceptStep ==
    Len(offsets') > Len(offsets)
        => /\ Last(offsets') = offset
           /\ offset' = offset + Last(headers').len
           /\ fpos' = offset'

\* C17: after a node is accepted at offset o with header length len the next
\* header is read at o + len, the cursor and the file position agree at the start
\* of every iteration, and the emitted offsets increase without overlap.
C17_AdvanceByLen == []CursorAgrees /\ [][AcceptStep]_vars

\* two nodes were emitted, the second right behind the first
C17_Witness ==
    /\ Len(offsets) >= 2
    /\ offsets[2] = offsets[1] + headers[1].len
    /\ scan = "returned"

(***************************************************************************)
(* create_filesystem_structure and the reconstruction state (SpecRecon)    *)
(***************************************************************************)
\* C18: the steps of create_filesystem_structure (_create_regular_file and
\* _create_symbolic_link included) leave inodes, dir_entries, data_blocks, the
\* paths of the inodes, their path lists (contents and order) and
\* symlink_targets as they are.
C18_MaterializationFrame ==
    [][(pc = "mkdirs" \/ pc = "files")
        => UNCHANGED <<inodes, dir_entries, data_blocks, inode_paths, hard_links,
                       symlink_targets>>]_vars

(***************************************************************************)
(* Termination of the scan (SpecScanFair)                                  *)
(***************************************************************************)
\* an iteration of the loop ends the scan or moves the cursor forward
ProgressStep == scan = "running" => (scan' # "running" \/ offset' > offset)

\* C19: every iteration of the loop of parse_ubifs_image stops the scan (fewer
\* than 24 bytes left, or an error) or strictly increases the cursor, and on
\* every image the loop ends.
C19_ScannerTerminates == [][ProgressStep]_vars /\ <>(scan # "running")

\* the scan ended at the end of the image, after it crossed bytes without magic
\* one by one and accepted the node behind them
C19_Witness ==
    /\ scan = "returned"
    /\ Len(offsets) = 1
    /\ offsets[1] > 0
    /\ offset = Len(image)
    /\ fpos = Len(image)

====
